---- MODULE Spec2Model ----
(***************************************************************************)
(* Model of functionPDF.py: the paragraph-by-paragraph parser parse_docx   *)
(* with its regular expressions, build and tidy_tf, and the quiz that main *)
(* runs on the bank: mode_one, mode_two, run_quiz and ask.                 *)
(*                                                                         *)
(* Spec     parse_docx on documents made up paragraph by paragraph         *)
(* SpecRun  parse_docx on a document fixed before the loop starts          *)
(* SpecQuiz main from the moment parse_docx has returned the bank          *)
(*                                                                         *)
(* A Python string is a sequence of characters; a character is a TLA+      *)
(* string.  ASCII characters stand for themselves.  Characters outside     *)
(* ASCII are written by name:                                              *)
(*   "DA" "AN" = 答案      "CAN" "KAO" = 参考    "ZHENG" "QUE" = 正确      *)
(*   "CUO" "WU" = 错误     "DUI" = 对            "CUO" = 错                *)
(*   "DUN" = 、   "FWCOMMA" = ，   "FWDOT" = ．   "FWCOLON" = ：           *)
(*   "EMDASH" = —   "FWLPAREN" = （   "FWRPAREN" = ）                      *)
(***************************************************************************)
EXTENDS Integers, Sequences, FiniteSets, TLC

\* Longest document (number of paragraphs) the model explores.
MaxLines == 4

\* Longest document of the runs whose document is fixed before the loop
\* starts (SpecRun).
MaxRun == 2

\* Longest list of which random.shuffle and random.sample try every order;
\* of a longer list they try three.
MaxShuffle == 3

\* Number of quiz sessions main starts before the model stops it.
MaxSessions == 2

\* NUM_PRACTICE and MC_RATIO (0.6, in tenths)
NUM_PRACTICE == 20

MC_RATIO_TENTHS == 6

-----------------------------------------------------------------------------
(* Characters and elementary string functions                              *)

\* Python's None for idx.  `if idx` treats None and "" alike, and (\d+)
\* never captures "", so the empty string stands for None.
None == <<>>

\* F(e), with the argument e evaluated once, before the call
Call(F(_), e) == CHOOSE r \in {F(x) : x \in {e}} : TRUE

Lower26 == <<"a","b","c","d","e","f","g","h","i","j","k","l","m",
             "n","o","p","q","r","s","t","u","v","w","x","y","z">>

Upper26 == <<"A","B","C","D","E","F","G","H","I","J","K","L","M",
             "N","O","P","Q","R","S","T","U","V","W","X","Y","Z">>

\* str.upper() on one character
UpperChar(c) ==
    IF \E i \in 1..26 : Lower26[i] = c
    THEN Upper26[CHOOSE i \in 1..26 : Lower26[i] = c]
    ELSE c

\* str.upper()
Upper(s) == [i \in 1..Len(s) |-> UpperChar(s[i])]

\* \s
IsSpace(c) == c \in {" ", "\t"}

\* \d
IsDigit(c) == c \in {"0","1","2","3","4","5","6","7","8","9"}

\* s[i:] with a 1-based index
From(s, i) == IF i > Len(s) THEN <<>> ELSE SubSeq(s, i, Len(s))

\* first index >= i of s that does not hold whitespace (\s* from i)
RECURSIVE SkipWS(_, _)
SkipWS(s, i) ==
    IF i <= Len(s) /\ IsSpace(s[i]) THEN SkipWS(s, i + 1) ELSE i

\* first index >= i of s that does not hold a digit (\d* from i)
RECURSIVE SkipDigits(_, _)
SkipDigits(s, i) ==
    IF i <= Len(s) /\ IsDigit(s[i]) THEN SkipDigits(s, i + 1) ELSE i

RECURSIVE RStrip(_)
RStrip(s) ==
    IF Len(s) > 0 /\ IsSpace(s[Len(s)]) THEN RStrip(SubSeq(s, 1, Len(s) - 1))
    ELSE s

\* str.strip()
Strip(s) == Call(RStrip, From(s, SkipWS(s, 1)))

\* does t occur in s at index i, ignoring case (re.I)
HasAt(s, i, t) ==
    /\ i + Len(t) - 1 <= Len(s)
    /\ \A k \in 1..Len(t) : UpperChar(s[i + k - 1]) = UpperChar(t[k])

-----------------------------------------------------------------------------
(* The patterns                                                            *)

\* LEAD_JUNK = ^[\s、，,．\.]+
JunkChars == {" ", "\t", "DUN", "FWCOMMA", ",", "FWDOT", "."}

RECURSIVE LeadJunkEnd(_, _)
LeadJunkEnd(s, i) ==
    IF i <= Len(s) /\ s[i] \in JunkChars THEN LeadJunkEnd(s, i + 1) ELSE i

\* LEAD_JUNK.sub("", s)
LEAD_JUNK_sub(s) == Call(LAMBDA t : From(t, LeadJunkEnd(t, 1)), s)

\* Q_HEAD = ^\s*(?:Q\s*)?(\d+)[\s\.\、\．\)\）]\s*(.*)   (re.I)
HeadSeps == {" ", "\t", ".", "DUN", "FWDOT", ")", "FWRPAREN"}

\* index after the optional (?:Q\s*) at index p0
AfterQ(txt, p0) ==
    IF p0 <= Len(txt) /\ UpperChar(txt[p0]) = "Q"
    THEN SkipWS(txt, p0 + 1) ELSE p0

\* the digits txt[p1..p2-1], then a separator and the rest
HeadMatch(txt, p1, p2) ==
    IF p2 > p1 /\ p2 <= Len(txt) /\ txt[p2] \in HeadSeps
    THEN [ok |-> TRUE, idx |-> SubSeq(txt, p1, p2 - 1),
          rest |-> From(txt, SkipWS(txt, p2 + 1))]
    ELSE [ok |-> FALSE, idx |-> <<>>, rest |-> <<>>]

\* Q_HEAD.match(txt): [ok, idx (group 1), rest (group 2)]
Q_HEAD(txt) ==
    Call(LAMBDA p1 : Call(LAMBDA p2 : HeadMatch(txt, p1, p2),
                          SkipDigits(txt, p1)),
         AfterQ(txt, SkipWS(txt, 1)))

\* OPT_PAT = ^\s*[A-E][\s\.\、]   (re.I)
OPT_PAT(txt) ==
    LET p == SkipWS(txt, 1)
    IN  /\ p + 1 <= Len(txt)
        /\ UpperChar(txt[p]) \in {"A", "B", "C", "D", "E"}
        /\ txt[p + 1] \in {" ", "\t", ".", "DUN"}

\* the words of ANS_PAT's group 1, in the order of the alternation
AnsWords == << <<"ZHENG","QUE">>, <<"CUO","WU">>, <<"DUI">>, <<"CUO">> >>

\* index after the label (答案|参考答案|answer|key|correct\s*answer) at i,
\* 0 when no label starts at i
LabelEnd(s, i) ==
    IF HasAt(s, i, <<"DA","AN">>) THEN i + 2
    ELSE IF HasAt(s, i, <<"CAN","KAO","DA","AN">>) THEN i + 4
    ELSE IF HasAt(s, i, <<"a","n","s","w","e","r">>) THEN i + 6
    ELSE IF HasAt(s, i, <<"k","e","y">>) THEN i + 3
    ELSE IF HasAt(s, i, <<"c","o","r","r","e","c","t">>)
         THEN LET a == SkipWS(s, i + 7)
              IN  IF HasAt(s, a, <<"a","n","s","w","e","r">>) THEN a + 6 ELSE 0
    ELSE 0

\* index after an optional character of cs at index i
Optional(s, i, cs) == IF i <= Len(s) /\ s[i] \in cs THEN i + 1 ELSE i

\* length of the token ([A-E]|正确|错误|对|错) at index e, 0 when there is none
TokenLen(s, e) ==
    IF e <= Len(s) /\ UpperChar(s[e]) \in {"A","B","C","D","E"} THEN 1
    ELSE IF \E w \in 1..Len(AnsWords) : HasAt(s, e, AnsWords[w])
         THEN Len(AnsWords[CHOOSE w \in 1..Len(AnsWords) :
                    /\ HasAt(s, e, AnsWords[w])
                    /\ \A v \in 1..(w - 1) : ~HasAt(s, e, AnsWords[v])])
         ELSE 0

\* the token of n characters at index e and what follows it: \s*[\)）]?
AnsToken(s, e, n) ==
    IF n > 0
    THEN [ok |-> TRUE, tok |-> SubSeq(s, e, e + n - 1),
          end |-> Optional(s, SkipWS(s, e + n), {")", "FWRPAREN"})]
    ELSE [ok |-> FALSE, tok |-> <<>>, end |-> e]

\* ANS_PAT after its label, which ended before index l:
\* \s*[:：—\-]?\s*[\(（]?\s*([A-E]|正确|错误|对|错)\s*[\)）]?
AnsTail(s, l) ==
    Call(LAMBDA e : Call(LAMBDA n : AnsToken(s, e, n), TokenLen(s, e)),
         SkipWS(s, Optional(s,
                   SkipWS(s, Optional(s, SkipWS(s, l),
                                      {":", "FWCOLON", "EMDASH", "-"})),
                   {"(", "FWLPAREN"})))

\* ANS_PAT tried at index i: [ok, tok (group 1), end (index after the match)]
AnsMatch(s, i, l) ==
    IF l > 0 THEN AnsTail(s, l) ELSE [ok |-> FALSE, tok |-> <<>>, end |-> i]

AnsAt(s, i) == Call(LAMBDA l : AnsMatch(s, i, l), LabelEnd(s, i))

\* ANS_PAT.search(s) from index i: the leftmost match
RECURSIVE AnsSearchFrom(_, _)
AnsSearchFrom(s, i) ==
    IF i > Len(s) THEN [ok |-> FALSE, tok |-> <<>>, end |-> i]
    ELSE Call(LAMBDA hit : IF hit.ok THEN hit ELSE AnsSearchFrom(s, i + 1),
              AnsAt(s, i))

\* ANS_PAT.search(s)
ANS_PAT_search(s) == Call(LAMBDA t : AnsSearchFrom(t, 1), s)

\* ANS_PAT.sub("", s): every non-overlapping match removed, left to right
RECURSIVE AnsSubFrom(_, _)
AnsSubFrom(s, i) ==
    IF i > Len(s) THEN <<>>
    ELSE Call(LAMBDA hit : IF hit.ok THEN AnsSubFrom(s, hit.end)
                           ELSE <<s[i]>> \o AnsSubFrom(s, i + 1),
              AnsAt(s, i))

ANS_PAT_sub(s) == Call(LAMBDA t : AnsSubFrom(t, 1), s)

\* re.fullmatch(r"(?:[A-D]|正确|错误|对|错)", txt, re.I)
BareMatch(txt) ==
    Upper(txt) \in { <<"A">>, <<"B">>, <<"C">>, <<"D">>,
                     <<"ZHENG","QUE">>, <<"CUO","WU">>, <<"DUI">>, <<"CUO">> }

-----------------------------------------------------------------------------
(* tidy_tf and build                                                       *)

TF_MAP ==
    (<<"ZHENG","QUE">> :> <<"A">>) @@ (<<"DUI">> :> <<"A">>) @@
    (<<"E","R","R","O","R">> :> <<"B">>) @@ (<<"CUO","WU">> :> <<"B">>) @@
    (<<"CUO">> :> <<"B">>) @@ (<<"T","R","U","E">> :> <<"A">>) @@
    (<<"T">> :> <<"A">>) @@ (<<"F","A","L","S","E">> :> <<"B">>) @@
    (<<"F">> :> <<"B">>)

\* s[:1]
First1(s) == IF Len(s) = 0 THEN <<>> ELSE <<s[1]>>

\* tidy_tf without the lookup in TF_MAP
tidy_tf_NoMap(ans_raw) == First1(Upper(Strip(ans_raw)))

tidy_tf(ans_raw) ==
    LET s == Upper(Strip(ans_raw))
    IN  IF s \in DOMAIN TF_MAP THEN TF_MAP[s] ELSE First1(s)

\* the type test with >= in place of >
QTypeAtLeastTwo(o) == IF Len(o) >= 2 THEN "mc" ELSE "tf"

\* qtype = "mc" if len(opts) > 2 else "tf"
QType(o) == IF Len(o) > 2 THEN "mc" ELSE "tf"

\* the answer build stores: ans_raw.upper(), through tidy_tf when qtype is "tf"
BuildAns(o, ans_raw) ==
    IF QType(o) = "tf" THEN tidy_tf(Upper(ans_raw)) ELSE Upper(ans_raw)

build(i, st, o, ans_raw) ==
    [qid     |-> i,
     stem    |-> Strip(LEAD_JUNK_sub(Strip(st))),
     options |-> o,
     answer  |-> BuildAns(o, ans_raw),
     qtype   |-> QType(o)]

-----------------------------------------------------------------------------
(* parse_docx                                                              *)

\* The paragraphs a document may hold (para.text, before strip).
Paragraphs ==
    { <<" ">>,                                          \* blank
      <<"1", ".", "x">>,                                \* header
      <<"Q", "2", " ", "DA", "AN", "ZHENG", "QUE">>,   \* header, inline 正确
      <<"3", ")", "k", "e", "y", "(", "b", ")", ",", "v">>,
                                                        \* header, inline (b)
      <<"k", "e", "y", ":", "C">>,                      \* answer line
      <<"DA", "AN", "FWCOLON", "CUO", "WU">>,           \* answer line 错误
      <<"C", ".", "z", " ", "k", "e", "y", " ", "a">>,  \* option and answer
      <<"A", ".", "p">>,                                \* option
      <<"b", "DUN", "q">>,                              \* option
      <<"CUO">>,                                        \* bare 错
      <<"B">>,                                          \* bare letter
      <<"E">>,                                          \* a lone E
      <<",", "w">> }                                    \* text

\* Header lines with an inline answer, in parts: the header up to its
\* remainder with the number in it, the label of the answer field, what
\* stands between label and token, and the token.
InlineParts ==
    [head  : { [num |-> <<"1">>, text |-> <<"1", ".">>],
               [num |-> <<"1", "2">>,
                text |-> <<"q", " ", "1", "2", "FWRPAREN", " ", "x", " ">>] },
     label : { <<"DA", "AN">>, <<"CAN", "KAO", "DA", "AN">>,
               <<"A", "n", "s", "w", "e", "r">>, <<"k", "e", "y">>,
               <<"c", "o", "r", "r", "e", "c", "t", " ",
                 "a", "n", "s", "w", "e", "r">> },
     sep   : { <<>>, <<" ", "FWCOLON", "FWLPAREN">> },
     tok   : { <<"A">>, <<"b">>, <<"C">>, <<"d">>, <<"E">>,
               <<"ZHENG", "QUE">>, <<"CUO", "WU">>, <<"DUI">>, <<"CUO">> }]

\* the line the parts make
InlineLine(p) == p.head.text \o p.label \o p.sep \o p.tok

InlineHeaders == {InlineLine(p) : p \in InlineParts}

\* Every paragraph the model knows: those of the documents made up line by
\* line and those met only in documents fixed in advance.
Lines ==
    Paragraphs \cup InlineHeaders \cup { <<"B", " ", "k", "e", "y", " ", "b">> }

\* the new question a header line opens, hit being ANS_PAT.search(rest):
\* [idx, stem, opts, ans]
\* the header taken without a look at its remainder for an answer field
NewQuestionNoInline(m, hit) ==
    [idx |-> m.idx, opts |-> <<>>, ans |-> <<>>, stem |-> m.rest]

NewQuestionWith(m, hit) ==
    [idx  |-> m.idx,
     opts |-> <<>>,
     ans  |-> IF hit.ok THEN Strip(hit.tok) ELSE <<>>,
     stem |-> IF hit.ok THEN LEAD_JUNK_sub(Strip(ANS_PAT_sub(m.rest)))
              ELSE m.rest]

NewQuestion(m) ==
    Call(LAMBDA hit : NewQuestionWith(m, hit), ANS_PAT_search(m.rest))

\* para.text.strip() of each paragraph (line 63)
Txt == [para \in Lines |-> Strip(para)]

\* What the loop body computes from one paragraph before it touches the
\* parse state: txt and the four pattern tests on it.
Scan ==
    [para \in Lines |->
        [txt  |-> Txt[para],
         m    |-> Q_HEAD(Txt[para]),
         hit  |-> ANS_PAT_search(Txt[para]),
         opt  |-> OPT_PAT(Txt[para]),
         bare |-> BareMatch(Txt[para])]]

\* The question each paragraph opens when it is a header line (lines 77-88).
Opened == [para \in Lines |-> NewQuestion(Scan[para].m)]

\* Each paragraph without its answer field (line 102).
Cleaned == [para \in Lines |-> Strip(ANS_PAT_sub(Txt[para]))]

VARIABLES
    doc,    \* the paragraphs the loop has consumed so far, in order
    idx,    \* current question number, None before the first header
    stem,   \* accumulated stem
    opts,   \* accumulated option lines
    ans,    \* answer token, "" when none
    qs,     \* the bank under construction
    pc,     \* "parse" inside the loop of parse_docx, "done" after its
            \* return; in main "menu" at the mode prompt, "quiz" inside
            \* run_quiz, "exit" after the break, "crashed" after an
            \* exception nothing catches
    head,   \* history: index in doc of the header that opened the current
            \* question, 0 before the first header
    src,    \* history: for each Question of qs, the doc indices first..last
            \* of the paragraphs read while it was open, and the raw answer
            \* token it was built from
    input,  \* doc.paragraphs when the run fixes the document before the
            \* loop starts (SpecRun); <<>> where the document is made up
            \* paragraph by paragraph (Spec)
    bank,     \* main: the list parse_docx returned, <<>> before it returns
    mode,     \* main: the last answer to the mode prompt, "" before the first
    sessions, \* number of quiz sessions started
    pool,     \* run_quiz: the list of Questions of the session
    cur,      \* run_quiz: number of Questions asked so far in the session
    score,    \* run_quiz: number of them judged correct
    picked,   \* history: for each entry of pool, its position in the bank
              \* as it was when the session started
    asked,    \* history: the Questions ask was called with, in order
    last,     \* history: the last call of ask, <<>> before the first:
              \* [q, order (the shuffle: old position of each new one),
              \*  shown (raw_opts after the shuffle), inp, correct]
    report    \* history: <<score, total>> as last printed by run_quiz,
              \* <<>> before

quiz == <<bank, mode, sessions, pool, cur, score, picked, asked, last, report>>

vars == <<doc, idx, stem, opts, ans, qs, pc, head, src, input, quiz>>

\* main has not come to the quiz
QuizIdle ==
    /\ bank = <<>>
    /\ mode = <<>>
    /\ sessions = 0
    /\ pool = <<>>
    /\ cur = 0
    /\ score = 0
    /\ picked = <<>>
    /\ asked = <<>>
    /\ last = <<>>
    /\ report = <<>>

Init ==
    /\ QuizIdle
    /\ input = <<>>
    /\ doc = <<>>
    /\ idx = None
    /\ stem = <<>>
    /\ opts = <<>>
    /\ ans = <<>>
    /\ qs = <<>>
    /\ pc = "parse"
    /\ head = 0
    /\ src = <<>>

\* the save without its test of ans
FlushNoAnswerCheck(q, i, st, o, a) ==
    IF i # None THEN Append(q, build(i, st, o, a)) ELSE q

\* the save without its test of idx
FlushNoIdxCheck(q, i, st, o, a) ==
    IF a # <<>> THEN Append(q, build(i, st, o, a)) ELSE q

\* the save putting the Question in front of the bank
FlushInFront(q, i, st, o, a) ==
    IF i # None /\ a # <<>> THEN <<build(i, st, o, a)>> \o q ELSE q

\* if idx and ans: qs.append(build(idx, stem, opts, ans))
Flush(q, i, st, o, a) ==
    IF i # None /\ a # <<>> THEN Append(q, build(i, st, o, a)) ELSE q

\* history of a save: one src entry for the Question the save appended
Saved(q) ==
    IF Len(q) > Len(qs)
    THEN Append(src, [first |-> head, last |-> Len(doc), raw |-> ans])
    ELSE src

\* what the loop can take next: the next paragraph of the document fixed
\* in advance, any of Paragraphs where the document is made up line by line
Feed ==
    IF Len(doc) < Len(input) THEN {input[Len(doc) + 1]} ELSE Paragraphs

\* the loop takes the next paragraph
Read(para) ==
    /\ pc = "parse"
    /\ Len(doc) < MaxLines
    /\ doc' = Append(doc, para)
    /\ pc' = pc
    /\ UNCHANGED <<input, quiz>>

\* if not txt: continue
BlankLine ==
    \E para \in Feed :
        LET L == Scan[para]
        IN  /\ Read(para)
            /\ L.txt = <<>>
            /\ UNCHANGED <<idx, stem, opts, ans, qs, head, src>>

\* the header line without "opts = []": the options of the question
\* before stay
HeaderLineKeepsOpts ==
    \E para \in Feed :
        LET L == Scan[para]
        IN  /\ Read(para)
            /\ L.txt # <<>>
            /\ L.m.ok
            /\ qs' = Flush(qs, idx, stem, opts, ans)
            /\ src' = Saved(qs')
            /\ head' = Len(doc) + 1
            /\ idx' = Opened[para].idx
            /\ opts' = opts
            /\ ans' = Opened[para].ans
            /\ stem' = Opened[para].stem

\* (1) header line
HeaderLine ==
    \E para \in Feed :
        LET L == Scan[para]
        IN  /\ Read(para)
            /\ L.txt # <<>>
            /\ L.m.ok
            /\ qs' = Flush(qs, idx, stem, opts, ans)
            /\ src' = Saved(qs')
            /\ head' = Len(doc) + 1
            /\ idx' = Opened[para].idx
            /\ opts' = Opened[para].opts
            /\ ans' = Opened[para].ans
            /\ stem' = Opened[para].stem

\* opts after an answer line: the line without its answer field is kept
\* when the line is an option line as well
AnswerOpts(o, opt, clean) == IF opt THEN Append(o, clean) ELSE o

\* the answer line without its continue: an answer line that is an
\* option line too goes on into branch (3), which appends the raw line
AnswerLineFallsThrough ==
    \E para \in Feed :
        LET L == Scan[para]
        IN  /\ Read(para)
            /\ L.txt # <<>>
            /\ ~L.m.ok
            /\ L.hit.ok
            /\ ans' = Strip(L.hit.tok)
            /\ opts' = IF L.opt
                       THEN Append(AnswerOpts(opts, L.opt, Cleaned[para]),
                                   L.txt)
                       ELSE opts
            /\ UNCHANGED <<idx, stem, qs, head, src>>

\* (2) answer line
AnswerLine ==
    \E para \in Feed :
        LET L == Scan[para]
        IN  /\ Read(para)
            /\ L.txt # <<>>
            /\ ~L.m.ok
            /\ L.hit.ok
            /\ ans' = Strip(L.hit.tok)
            /\ opts' = AnswerOpts(opts, L.opt, Cleaned[para])
            /\ UNCHANGED <<idx, stem, qs, head, src>>

\* the option put in front of the list
OptionOptsInFront(o, txt) == <<txt>> \o o

\* opts.append(txt)
OptionOpts(o, txt) == Append(o, txt)

\* the option line taken whether or not the line holds an answer field
OptionLineNoPriority ==
    \E para \in Feed :
        LET L == Scan[para]
        IN  /\ Read(para)
            /\ L.txt # <<>>
            /\ ~L.m.ok
            /\ L.opt
            /\ opts' = OptionOpts(opts, L.txt)
            /\ UNCHANGED <<idx, stem, ans, qs, head, src>>

\* (3) option line
OptionLine ==
    \E para \in Feed :
        LET L == Scan[para]
        IN  /\ Read(para)
            /\ L.txt # <<>>
            /\ ~L.m.ok
            /\ ~L.hit.ok
            /\ L.opt
            /\ opts' = OptionOpts(opts, L.txt)
            /\ UNCHANGED <<idx, stem, ans, qs, head, src>>

\* the guard of (4) without "not ans"
BareGuardNoAnsCheck(i, a, bare) == i # None /\ bare

\* if idx and not ans and re.fullmatch(...)
BareGuard(i, a, bare) == i # None /\ a = <<>> /\ bare

\* (4) a lone letter or true/false word taken as the answer
BareAnswerLine ==
    \E para \in Feed :
        LET L == Scan[para]
        IN  /\ Read(para)
            /\ L.txt # <<>>
            /\ ~L.m.ok
            /\ ~L.hit.ok
            /\ ~L.opt
            /\ BareGuard(idx, ans, L.bare)
            /\ ans' = L.txt
            /\ UNCHANGED <<idx, stem, opts, qs, head, src>>

\* the stem line taken only while a question is open: a line of text
\* before the first header finds no branch
StemLineOpenOnly ==
    \E para \in Feed :
        LET L == Scan[para]
        IN  /\ Read(para)
            /\ idx # None
            /\ L.txt # <<>>
            /\ ~L.m.ok
            /\ ~L.hit.ok
            /\ ~L.opt
            /\ ~BareGuard(idx, ans, L.bare)
            /\ stem' = stem \o <<" ">> \o L.txt
            /\ UNCHANGED <<idx, opts, ans, qs, head, src>>

\* (5) stem continuation
StemLine ==
    \E para \in Feed :
        LET L == Scan[para]
        IN  /\ Read(para)
            /\ L.txt # <<>>
            /\ ~L.m.ok
            /\ ~L.hit.ok
            /\ ~L.opt
            /\ ~BareGuard(idx, ans, L.bare)
            /\ stem' = stem \o <<" ">> \o L.txt
            /\ UNCHANGED <<idx, opts, ans, qs, head, src>>

\* end of the document: the last question is saved, the bank returned
Finish ==
    /\ pc = "parse"
    /\ qs' = Flush(qs, idx, stem, opts, ans)
    /\ src' = Saved(qs')
    /\ pc' = "done"
    /\ UNCHANGED <<doc, idx, stem, opts, ans, head, input, quiz>>

\* The loop body as a function of the parse state and one paragraph.
LineStep(st, para) ==
    LET L == Scan[para]
    IN  IF L.txt = <<>> THEN st
        ELSE IF L.m.ok
        THEN [idx  |-> Opened[para].idx,
              stem |-> Opened[para].stem,
              opts |-> Opened[para].opts,
              ans  |-> Opened[para].ans,
              qs   |-> Flush(st.qs, st.idx, st.stem, st.opts, st.ans)]
        ELSE IF L.hit.ok
        THEN [st EXCEPT !.ans = Strip(L.hit.tok),
                        !.opts = AnswerOpts(st.opts, L.opt, Cleaned[para])]
        ELSE IF L.opt
        THEN [st EXCEPT !.opts = OptionOpts(st.opts, L.txt)]
        ELSE IF BareGuard(st.idx, st.ans, L.bare)
        THEN [st EXCEPT !.ans = L.txt]
        ELSE [st EXCEPT !.stem = st.stem \o <<" ">> \o L.txt]

\* the parse state before the loop
StartState ==
    [idx |-> None, stem |-> <<>>, opts |-> <<>>, ans |-> <<>>, qs |-> <<>>]

\* the parse state after the loop has read the paragraphs d[i..]
RECURSIVE LoopFrom(_, _, _)
LoopFrom(st, d, i) ==
    IF i > Len(d) THEN st
    ELSE Call(LAMBDA t : LoopFrom(t, d, i + 1), LineStep(st, d[i]))

\* parse_docx on a document with paragraphs d: the bank returned
parse_docx(d) ==
    Call(LAMBDA st : Flush(st.qs, st.idx, st.stem, st.opts, st.ans),
         LoopFrom(StartState, d, 1))

Next ==
    \/ BlankLine
    \/ HeaderLine
    \/ AnswerLine
    \/ OptionLine
    \/ BareAnswerLine
    \/ StemLine
    \/ Finish

Spec == Init /\ [][Next]_vars

\* parse_docx on a document fixed before the loop starts: the for loop
\* takes the paragraphs of input one after the other and leaves after the
\* last one.
RunDocs ==
    UNION {[1..n -> Paragraphs] : n \in 0..MaxRun}
       \cup {<<h>> : h \in InlineHeaders}

InitRun ==
    /\ QuizIdle
    /\ input \in RunDocs
    /\ doc = <<>>
    /\ idx = None
    /\ stem = <<>>
    /\ opts = <<>>
    /\ ans = <<>>
    /\ qs = <<>>
    /\ pc = "parse"
    /\ head = 0
    /\ src = <<>>

\* one iteration of `for para in doc.paragraphs`
RunLine ==
    /\ Len(doc) < Len(input)
    /\ \/ BlankLine
       \/ HeaderLine
       \/ AnswerLine
       \/ OptionLine
       \/ BareAnswerLine
       \/ StemLine
    /\ doc' = Append(doc, input[Len(doc) + 1])

\* the loop is over: lines 125-130
RunReturn ==
    /\ Len(doc) = Len(input)
    /\ Finish

NextRun == RunLine \/ RunReturn

\* The interpreter runs the loop to its end: a step that can be taken is
\* taken.
SpecRun == InitRun /\ [][NextRun]_vars /\ WF_vars(NextRun)

-----------------------------------------------------------------------------
(* The quiz: main, mode_one, mode_two, run_quiz, ask                       *)

\* min(a, b)
Min(a, b) == IF a <= b THEN a ELSE b

\* round() of x tenths: to the nearest integer, a tie to the even one
RoundTenths(x) ==
    LET q == x \div 10
        r == x % 10
    IN  IF r < 5 THEN q
        ELSE IF r > 5 THEN q + 1
        ELSE IF q % 2 = 0 THEN q ELSE q + 1

\* mc_need and tf_need before they are cut down (lines 210-211)
McNeed == RoundTenths(NUM_PRACTICE * MC_RATIO_TENTHS)

TfNeed == NUM_PRACTICE - McNeed

\* the orders random.shuffle can leave n elements in, as maps from the new
\* position to the old one: every order of a short list, three orders
\* (as it was, reversed, rotated by one) of a longer one
Orders(n) ==
    IF n <= MaxShuffle
    THEN {p \in [1..n -> 1..n] : \A i, j \in 1..n : i # j => p[i] # p[j]}
    ELSE { [i \in 1..n |-> i],
           [i \in 1..n |-> n + 1 - i],
           [i \in 1..n |-> (i % n) + 1] }

\* the lists random.shuffle(s) can leave
Shuffles(s) == {[i \in 1..Len(s) |-> s[p[i]]] : p \in Orders(Len(s))}

\* the lists random.sample(s, k) can return
Samples(s, k) == {SubSeq(t, 1, k) : t \in Shuffles(s)}

\* [q for q in bank if q.qtype == t], as positions in the bank
TypePool(b, t) ==
    SelectSeq([i \in 1..Len(b) |-> i], LAMBDA i : b[i].qtype = t)

\* the lists `selected` can hold before its shuffle (line 217), as positions
SelectedOf(mc_pool, tf_pool) ==
    {m \o t : m \in Samples(mc_pool, Min(McNeed, Len(mc_pool))),
              t \in Samples(tf_pool, Min(TfNeed, Len(tf_pool)))}

\* the lists mode_one can hand to run_quiz, as positions in the bank
ModeOnePools(b) ==
    UNION {Shuffles(sel) :
              sel \in SelectedOf(TypePool(b, "mc"), TypePool(b, "tf"))}

\* the Questions at the positions p of the bank b
Pick(b, p) == [i \in 1..Len(p) |-> b[p[i]]]

\* one option line as ask reads it (lines 161-165): letter and text, the
\* letter "" when the line does not start with A-E and a separator
AskOpt(raw) ==
    LET p == SkipWS(raw, 1)
    IN  IF /\ p + 1 <= Len(raw)
           /\ UpperChar(raw[p]) \in {"A", "B", "C", "D", "E"}
           /\ raw[p + 1] \in {" ", "\t", ".", "DUN"}
        THEN [letter |-> <<UpperChar(raw[p])>>,
              text   |-> Strip(From(raw, SkipWS(raw, p + 2)))]
        ELSE [letter |-> <<>>, text |-> Strip(raw)]

\* raw_opts before the shuffle (lines 156-165)
RawOpts(q) ==
    IF q.options = <<>>
    THEN << [letter |-> <<"A">>, text |-> <<"ZHENG", "QUE">>],
            [letter |-> <<"B">>, text |-> <<"CUO", "WU">>] >>
    ELSE [i \in 1..Len(q.options) |-> AskOpt(q.options[i])]

\* str(idx) for the positions ask numbers
Str(i) == << <<"1", "2", "3", "4", "5", "6", "7", "8", "9">>[i] >>

\* num2letter.get(inp, inp) with inp stripped and in upper case
UserLetter(shown, inp) ==
    LET s == Upper(Strip(inp))
        hit == {j \in 1..Len(shown) : shown[j].letter # <<>> /\ Str(j) = s}
    IN  IF hit # {} THEN shown[CHOOSE j \in hit : TRUE].letter ELSE s

\* correct = (user_letter == q.answer)
Judge(q, shown, inp) == UserLetter(shown, inp) = q.answer

\* What the user may type at "Your answer".
Inputs ==
    { <<"a">>, <<" ", "B">>, <<"C">>, <<"1">>, <<"2">>, <<"3">>, <<"x">> }

\* The documents of the quiz runs.
HeaderTf == <<"Q", "2", " ", "DA", "AN", "ZHENG", "QUE">>

McLines ==
    << <<"1", ".", "x">>, <<"A", ".", "p">>, <<"b", "DUN", "q">>,
       <<"C", ".", "z", " ", "k", "e", "y", " ", "a">> >>

\* n times the lines d
RECURSIVE Times(_, _)
Times(n, d) == IF n = 0 THEN <<>> ELSE d \o Times(n - 1, d)

QuizDocs ==
    { <<>>,
      << <<"1", ".", "x">> >>,
      McLines \o <<HeaderTf>>
              \o << <<"3", ")", "k", "e", "y", "(", "b", ")", ",", "v">> >>,
      << <<"1", ".", "x">>, <<"B", " ", "k", "e", "y", " ", "b">> >>,
      Times(NUM_PRACTICE, <<HeaderTf>>) }

\* the bank main gets for each of them (line 227)
BankOf == [d \in QuizDocs |-> parse_docx(d)]

\* main after parse_docx has returned: the bank is loaded, the mode prompt
\* comes next
InitQuiz ==
    /\ doc \in QuizDocs
    /\ input = doc
    /\ qs = BankOf[doc]
    /\ bank = BankOf[doc]
    /\ idx = None
    /\ stem = <<>>
    /\ opts = <<>>
    /\ ans = <<>>
    /\ head = 0
    /\ src = <<>>
    /\ pc = "menu"
    /\ mode = <<>>
    /\ sessions = 0
    /\ pool = <<>>
    /\ cur = 0
    /\ score = 0
    /\ picked = <<>>
    /\ asked = <<>>
    /\ last = <<>>
    /\ report = <<>>

parser == <<doc, idx, stem, opts, ans, qs, head, src, input>>

\* run_quiz starts on the list p (lines 198-199); the histories start anew
StartQuiz(p, at) ==
    /\ pool' = p
    /\ picked' = at
    /\ cur' = 0
    /\ score' = 0
    /\ asked' = <<>>
    /\ last' = <<>>
    /\ report' = <<>>
    /\ sessions' = sessions + 1
    /\ pc' = "quiz"

\* mode "1": mode_one(bank)
ModeOne ==
    /\ pc = "menu"
    /\ sessions < MaxSessions
    /\ mode' = <<"1">>
    /\ \E at \in ModeOnePools(bank) : StartQuiz(Pick(bank, at), at)
    /\ UNCHANGED <<parser, bank>>

\* the bank refilled with one Question drawn again and again
ShuffledBankRepeats(b, p) == [i \in 1..Len(b) |-> b[p[1]]]

\* the bank after random.shuffle(bank) in the order p
ShuffledBank(b, p) == Pick(b, p)

\* mode "2": mode_two(bank); the bank is shuffled in place and is the pool
ModeTwo ==
    /\ pc = "menu"
    /\ sessions < MaxSessions
    /\ mode' = <<"2">>
    /\ \E p \in Orders(Len(bank)) :
          /\ bank' = ShuffledBank(bank, p)
          /\ StartQuiz(bank', p)
    /\ UNCHANGED parser

\* any other answer to the mode prompt: a message, then the prompt again
ModeInvalid ==
    /\ pc = "menu"
    /\ mode' = <<"x">>
    /\ pc' = pc
    /\ UNCHANGED <<parser, bank, sessions, pool, cur, score, picked, asked,
                   last, report>>

\* mode "q": break
ModeQuit ==
    /\ pc = "menu"
    /\ mode' = <<"q">>
    /\ pc' = "exit"
    /\ UNCHANGED <<parser, bank, sessions, pool, cur, score, picked, asked,
                   last, report>>

\* score after ask has returned
Scored(sc, correct) == IF correct THEN sc + 1 ELSE sc

\* one iteration of the loop of run_quiz: ask(q, idx, total) shuffles the
\* options, reads the answer of the user and judges it
Ask ==
    /\ pc = "quiz"
    /\ cur < Len(pool)
    /\ LET q == pool[cur + 1]
       IN  \E p \in Orders(Len(RawOpts(q))) : \E inp \in Inputs :
              LET shown == Pick(RawOpts(q), p)
              IN  /\ last' = [q |-> q, order |-> p, shown |-> shown,
                              inp |-> inp,
                              correct |-> Judge(q, shown, inp)]
                  /\ score' = Scored(score, Judge(q, shown, inp))
                  /\ asked' = Append(asked, q)
    /\ cur' = cur + 1
    /\ pc' = pc
    /\ UNCHANGED <<parser, bank, mode, sessions, pool, picked, report>>

\* the end of run_quiz (lines 203-205) with a pool that is not empty: the
\* score is printed, run_quiz and the mode function return (their locals
\* are gone) and main asks for the mode again
Report ==
    /\ pc = "quiz"
    /\ cur = Len(pool)
    /\ Len(pool) # 0
    /\ report' = <<score, Len(pool)>>
    /\ pool' = <<>>
    /\ picked' = <<>>
    /\ cur' = 0
    /\ score' = 0
    /\ asked' = <<>>
    /\ last' = <<>>
    /\ pc' = "menu"
    /\ UNCHANGED <<parser, bank, mode, sessions>>

\* the end of run_quiz with an empty pool: score/total divides by zero, and
\* nothing between run_quiz and the interpreter catches ZeroDivisionError
ReportCrash ==
    /\ pc = "quiz"
    /\ cur = Len(pool)
    /\ Len(pool) = 0
    /\ pc' = "crashed"
    /\ UNCHANGED <<parser, bank, mode, sessions, pool, cur, score, picked,
                   asked, last, report>>

NextQuiz ==
    \/ ModeOne
    \/ ModeTwo
    \/ ModeInvalid
    \/ ModeQuit
    \/ Ask
    \/ Report
    \/ ReportCrash

SpecQuiz == InitQuiz /\ [][NextQuiz]_vars

-----------------------------------------------------------------------------
(* Vocabulary of the properties                                            *)

\* The role of each paragraph under the fixed order of the tests in the
\* loop.
Kinds ==
    [para \in Lines |->
        LET L == Scan[para]
        IN  IF L.txt = <<>> THEN "blank"
            ELSE IF L.m.ok THEN "header"
            ELSE IF L.hit.ok THEN "answer"
            ELSE IF L.opt THEN "option"
            ELSE IF L.bare THEN "bare"
            ELSE "text"]

LineKind(para) == Kinds[para]

\* The answer token each paragraph carries: the inline answer of a header,
\* the token of an answer line, the text of a bare-answer line; "" otherwise.
Tokens ==
    [para \in Lines |->
        LET L == Scan[para]
            k == Kinds[para]
        IN  CASE k = "header" -> Opened[para].ans
              [] k = "answer" -> Strip(L.hit.tok)
              [] k = "bare"   -> L.txt
              [] OTHER        -> <<>>]

LineToken(para) == Tokens[para]

\* indices of the header lines read so far
Headers == {i \in 1..Len(doc) : LineKind(doc[i]) = "header"}

\* last line of the question opened by the header at h: the line before the
\* next header, or the last line read
SegLast(h) ==
    IF \E j \in Headers : j > h
    THEN (CHOOSE j \in Headers : j > h /\ \A i \in Headers : i > h => j <= i) - 1
    ELSE Len(doc)

\* the question opened at h has met its boundary
Closed(h) == pc = "done" \/ \E j \in Headers : j > h

\* the lines of h..l that carry an answer token
TokenLines(h, l) == {i \in h..l : LineToken(doc[i]) # <<>>}

\* the first of them
FirstToken(h, l) ==
    CHOOSE i \in TokenLines(h, l) : \A j \in TokenLines(h, l) : i <= j

\* src is a faithful history: entry k spans a header and the lines up to its
\* boundary, all read
SrcOk ==
    /\ Len(src) = Len(qs)
    /\ \A k \in 1..Len(src) :
          /\ src[k].first \in Headers
          /\ src[k].last = SegLast(src[k].first)
          /\ Closed(src[k].first)

-----------------------------------------------------------------------------
(* Properties                                                              *)

\* C1: the answer of every Question in the bank is the normalization of the
\* first answer token recorded for it (inline in its header, on an answer
\* line or on a bare-answer line); later answer lines do not change it.
C1_FirstAnswerWins ==
    /\ SrcOk
    /\ \A k \in 1..Len(qs) :
          TokenLines(src[k].first, src[k].last) # {} =>
             qs[k].answer =
                BuildAns(qs[k].options,
                         LineToken(doc[FirstToken(src[k].first, src[k].last)]))

\* C2: every Question in the bank was accumulated from a header to its
\* boundary and some line in between recorded an answer token; a question
\* without such a line is not in the bank.
C2_DroppedQuestion ==
    /\ SrcOk
    /\ \A k \in 1..Len(qs) :
          /\ qs[k].qid = Scan[doc[src[k].first]].m.idx
          /\ TokenLines(src[k].first, src[k].last) # {}
    /\ \A h \in Headers :
          TokenLines(h, SegLast(h)) = {} =>
             \A k \in 1..Len(src) : src[k].first # h

\* C2 witness: the parse is over, the bank is not empty, and a question
\* without any answer token was met and left out.
C2_Witness ==
    /\ pc = "done"
    /\ Len(qs) >= 1
    /\ \E h \in Headers :
          /\ TokenLines(h, SegLast(h)) = {}
          /\ \A k \in 1..Len(src) : src[k].first # h

\* C3: every Question in the bank has an answer of exactly one letter A-E.
C3_SingleLetterAnswer ==
    \A k \in 1..Len(qs) :
       /\ Len(qs[k].answer) = 1
       /\ qs[k].answer[1] \in {"A", "B", "C", "D", "E"}

\* C4 as stated: every true-false Question in the bank has answer A or B.
C4_TfAnswerAB ==
    \A k \in 1..Len(qs) :
       qs[k].qtype = "tf" => qs[k].answer \in {<<"A">>, <<"B">>}

\* C4 amended: every true-false Question in the bank has answer A or B,
\* unless the raw token recorded for it is a letter C, D or E in either
\* case; then its answer is that letter in upper case.
C4_TfAnswerABOrLetter ==
    /\ Len(src) = Len(qs)
    /\ \A k \in 1..Len(qs) :
          qs[k].qtype = "tf" =>
             IF Upper(src[k].raw) \in {<<"C">>, <<"D">>, <<"E">>}
             THEN qs[k].answer = Upper(src[k].raw)
             ELSE qs[k].answer \in {<<"A">>, <<"B">>}

\* C4 witness: a true-false Question built from a true/false word.
C4_Witness ==
    \E k \in 1..Len(qs) :
       /\ qs[k].qtype = "tf"
       /\ src[k].raw \in {<<"ZHENG","QUE">>, <<"CUO">>}
       /\ qs[k].answer \in {<<"A">>, <<"B">>}

\* the answer lines of h..l after line i that are not bare-answer lines
LaterMarkers(h, l, i) ==
    {j \in TokenLines(h, l) : j > i /\ LineKind(doc[j]) # "bare"}

\* the bare-answer lines of h..l after line i whose token differs from i's
LaterBares(h, l, i) ==
    {j \in TokenLines(h, l) :
        /\ j > i
        /\ LineKind(doc[j]) = "bare"
        /\ LineToken(doc[j]) # LineToken(doc[i])}

\* Question k got its first answer from its header or an answer line, and
\* afterwards a bare-answer line with another token and no answer line
MarkerThenBare(k) ==
    /\ TokenLines(src[k].first, src[k].last) # {}
    /\ LineKind(doc[FirstToken(src[k].first, src[k].last)])
          \in {"header", "answer"}
    /\ LaterBares(src[k].first, src[k].last,
                  FirstToken(src[k].first, src[k].last)) # {}
    /\ LaterMarkers(src[k].first, src[k].last,
                    FirstToken(src[k].first, src[k].last)) = {}

\* C5: when an answer line or an inline header answer recorded the answer
\* of a question and a bare-answer line with a different token came later,
\* the Question's answer is the normalization of the first token.
C5_BareAnswerDoesNotOverwrite ==
    /\ SrcOk
    /\ \A k \in 1..Len(qs) :
          MarkerThenBare(k) =>
             qs[k].answer =
                BuildAns(qs[k].options,
                         LineToken(doc[FirstToken(src[k].first, src[k].last)]))

\* C5 witness: such a Question is in the bank.
C5_Witness ==
    /\ SrcOk
    /\ \E k \in 1..Len(qs) : MarkerThenBare(k)

\* C6: a Question in the bank is true-false exactly when it stores at most
\* two options and multiple-choice exactly when it stores more.
C6_KindByOptionCount ==
    \A k \in 1..Len(qs) :
       /\ qs[k].qtype = "tf" <=> Len(qs[k].options) <= 2
       /\ qs[k].qtype = "mc" <=> Len(qs[k].options) > 2

\* C6 witness: a Question with three options, multiple-choice.
C6_Witness ==
    \E k \in 1..Len(qs) : Len(qs[k].options) = 3 /\ qs[k].qtype = "mc"

\* C7: every Question in the bank is the Question that parsing its own
\* lines alone, from its header to its boundary, yields: nothing of the
\* lines before its header is in its id, stem, options or answer.
C7_NoCarryOver ==
    /\ SrcOk
    /\ \A k \in 1..Len(qs) :
          parse_docx(SubSeq(doc, src[k].first, src[k].last)) = <<qs[k]>>

\* C7 witness: a question with option lines and no answer was dropped and
\* the question opened by the next header is in the bank.
C7_Witness ==
    /\ SrcOk
    /\ \E k \in 1..Len(qs) : \E h \in Headers :
          /\ SegLast(h) + 1 = src[k].first
          /\ TokenLines(h, SegLast(h)) = {}
          /\ \E i \in h..SegLast(h) : LineKind(doc[i]) = "option"

\* the document without the lines before its first header
FromFirstHeader ==
    IF Headers = {} THEN <<>>
    ELSE SubSeq(doc, CHOOSE h \in Headers : \A i \in Headers : h <= i,
                Len(doc))

\* C8: the bank returned is the bank of the document without the lines
\* that precede its first header, and is empty when there is no header.
C8_IdleLinesIgnored ==
    pc = "done" =>
       /\ qs = parse_docx(FromFirstHeader)
       /\ Headers = {} => qs = <<>>

\* C8 witness: a bank was returned for a document that starts with an
\* answer line or an option line and holds a header later.
C8_Witness ==
    /\ pc = "done"
    /\ Len(qs) >= 1
    /\ Len(doc) >= 2
    /\ LineKind(doc[1]) \in {"answer", "option"}

\* the ids of the header lines d[i..], in order
RECURSIVE HeaderIds(_, _)
HeaderIds(d, i) ==
    IF i > Len(d) THEN <<>>
    ELSE IF LineKind(d[i]) = "header"
         THEN <<Scan[d[i]].m.idx>> \o HeaderIds(d, i + 1)
         ELSE HeaderIds(d, i + 1)

\* a[i..] is a subsequence of b[j..]
RECURSIVE IsSubSeqFrom(_, _, _, _)
IsSubSeqFrom(a, i, b, j) ==
    IF i > Len(a) THEN TRUE
    ELSE IF j > Len(b) THEN FALSE
    ELSE IF a[i] = b[j] THEN IsSubSeqFrom(a, i + 1, b, j + 1)
    ELSE IsSubSeqFrom(a, i, b, j + 1)

\* the ids of the bank are a subsequence of the header ids, in order
BankIdsFollowHeaders ==
    /\ Len(qs) <= Cardinality(Headers)
    /\ IsSubSeqFrom([k \in 1..Len(qs) |-> qs[k].qid], 1, HeaderIds(doc, 1), 1)

\* a step that reads a header line while a question is open, or ends the
\* input
BoundaryStep ==
    /\ idx # None
    /\ \/ pc = "parse" /\ pc' = "done"
       \/ /\ Len(doc') = Len(doc) + 1
          /\ LineKind(doc'[Len(doc')]) = "header"

\* C9: the bank changes only at a boundary, by appending the one Question
\* built from the open question; its ids follow the headers of the document.
C9_AppendOnly ==
    /\ [](BankIdsFollowHeaders)
    /\ [][ \/ qs' = qs
           \/ /\ BoundaryStep
              /\ qs' = Append(qs, build(idx, stem, opts, ans)) ]_vars

\* C9 witness: two Questions in the bank and a third question dropped.
C9_Witness ==
    /\ pc = "done"
    /\ Len(qs) = 2
    /\ Cardinality(Headers) = 3

\* the options the lines doc[i..l] hold, in order: an option line as it
\* is, an answer line that is an option line too without its answer field
RECURSIVE OptionsOf(_, _)
OptionsOf(i, l) ==
    IF i > l THEN <<>>
    ELSE IF LineKind(doc[i]) = "option"
         THEN <<Scan[doc[i]].txt>> \o OptionsOf(i + 1, l)
    ELSE IF LineKind(doc[i]) = "answer" /\ Scan[doc[i]].opt
         THEN <<Cleaned[doc[i]]>> \o OptionsOf(i + 1, l)
    ELSE OptionsOf(i + 1, l)

\* C10: the options of every Question in the bank are the option lines
\* between its header and its boundary, in the order of the document.
C10_OptionsInDocumentOrder ==
    /\ SrcOk
    /\ \A k \in 1..Len(qs) :
          qs[k].options = OptionsOf(src[k].first + 1, src[k].last)

\* C10 witness: a Question with a raw option and, after it, a different
\* option taken from an answer line.
C10_Witness ==
    \E k \in 1..Len(qs) :
       /\ Len(qs[k].options) >= 2
       /\ qs[k].options[1] = <<"A", ".", "p">>
       /\ qs[k].options[2] = <<"C", ".", "z">>

\* C11: for every document, the loop reads the paragraphs one by one in the
\* order of the document, every paragraph finds a branch that handles it,
\* and the parse ends with the bank returned after the last paragraph.
C11_ParseTerminates ==
    /\ [][doc' # doc => /\ Len(doc) < Len(input)
                        /\ doc' = Append(doc, input[Len(doc) + 1])]_vars
    /\ [](pc = "done" => doc = input)
    /\ <>(pc = "done")

\* C11 witness: a parse that read a whole document of MaxRun paragraphs
\* whose first one came before any header (text, a lone token or an answer
\* line) and returned.
C11_Witness ==
    /\ pc = "done"
    /\ Len(doc) = MaxRun
    /\ doc = input
    /\ LineKind(doc[1]) \in {"text", "bare", "answer"}

\* the parse state: the locals of parse_docx the loop reads and writes
ParseState ==
    [idx |-> idx, stem |-> stem, opts |-> opts, ans |-> ans, qs |-> qs]

\* C12: the parse state after a line is read is one function (LineStep) of
\* the parse state before and of that line, whatever was read earlier, and
\* the bank returned for a document is one function (parse_docx) of the
\* document: two parses of the same document return the same bank.
C12_Deterministic ==
    /\ [](pc = "done" => qs = parse_docx(doc))
    /\ [][doc' # doc =>
             ParseState' = LineStep(ParseState, doc'[Len(doc')])]_vars

\* C12 witness: a bank of two Questions returned for a document that holds
\* a line matching the answer pattern and the option pattern at once.
C12_Witness ==
    /\ pc = "done"
    /\ Len(qs) = 2
    /\ \E i \in 1..Len(doc) :
          LineKind(doc[i]) = "answer" /\ Scan[doc[i]].opt

\* the answer a token stands for in a question without options: the letter
\* of the synonym table for a true/false word, the first character in
\* upper case otherwise
NormalizedToken(tok) ==
    CASE Upper(tok) \in {<<"ZHENG", "QUE">>, <<"DUI">>} -> <<"A">>
      [] Upper(tok) \in {<<"CUO", "WU">>, <<"CUO">>}    -> <<"B">>
      [] OTHER -> First1(Upper(tok))

\* the parts an inline header line was made of
PartsOf(line) == CHOOSE p \in InlineParts : InlineLine(p) = line

\* C13: the bank returned for a document of one header line whose remainder
\* holds an answer field is one Question; its id is the number of the
\* header and its answer the normalized token of the field.
C13_SingleHeaderInlineAnswer ==
    (pc = "done" /\ Len(doc) = 1) =>
       /\ (LineKind(doc[1]) = "header" /\ LineToken(doc[1]) # <<>>) =>
             /\ Len(qs) = 1
             /\ qs[1].qid = Scan[doc[1]].m.idx
             /\ qs[1].options = <<>>
             /\ qs[1].answer = NormalizedToken(LineToken(doc[1]))
       /\ doc[1] \in InlineHeaders =>
             /\ Len(qs) = 1
             /\ qs[1].qid = PartsOf(doc[1]).head.num
             /\ qs[1].answer = NormalizedToken(PartsOf(doc[1]).tok)

\* C13 witness: the bank returned for one header line whose answer field,
\* after a stem, holds a true/false word.
C13_Witness ==
    /\ pc = "done"
    /\ Len(doc) = 1
    /\ doc[1] \in InlineHeaders
    /\ PartsOf(doc[1]).tok = <<"CUO">>
    /\ PartsOf(doc[1]).head.num = <<"1", "2">>
    /\ Len(qs) = 1
    /\ qs[1].answer = <<"B">>

\* C14: a step that reads a bare-answer line while a question is open
\* leaves stem and options as they are; it sets the answer when none is
\* set and leaves the answer as it is otherwise.
C14_BareLineFrame ==
    [][(doc' # doc /\ idx # None /\ LineKind(doc'[Len(doc')]) = "bare") =>
          /\ stem' = stem
          /\ opts' = opts
          /\ ans = <<>> => ans' = Scan[doc'[Len(doc')]].txt
          /\ ans # <<>> => ans' = ans]_vars

\* txt is exactly one token an answer field can capture (group 1 of
\* ANS_PAT), with nothing else
LoneToken(txt) == Len(txt) > 0 /\ TokenLen(txt, 1) = Len(txt)

\* C15: a step that reads a line holding only a token an answer field can
\* capture, while a question is open and no answer is set, records that
\* token as the answer.
C15_BareTokensAsMarker ==
    [][(/\ doc' # doc
        /\ idx # None
        /\ ans = <<>>
        /\ LoneToken(Scan[doc'[Len(doc')]].txt)) =>
          ans' = Scan[doc'[Len(doc')]].txt]_vars

\* whether the option kept for each line holds no answer field any more
MarkerFree == [para \in Lines |-> ~ANS_PAT_search(Cleaned[para]).ok]

\* C16: a step that reads an answer line records the token of its answer
\* field and leaves the stem as it is.  When the line matches the option
\* pattern too, the step appends one option: the line without its answer
\* field, not the line as read.  Otherwise the options stay as they are.
C16_MarkerBeforeOption ==
    [][(doc' # doc /\ LineKind(doc'[Len(doc')]) = "answer") =>
          LET para == doc'[Len(doc')]
          IN  /\ ans' = LineToken(para)
              /\ stem' = stem
              /\ IF Scan[para].opt
                 THEN /\ Len(opts') = Len(opts) + 1
                      /\ SubSeq(opts', 1, Len(opts)) = opts
                      /\ opts'[Len(opts')] = Cleaned[para]
                      /\ opts'[Len(opts')] # Scan[para].txt
                      /\ MarkerFree[para]
                      /\ IsSubSeqFrom(opts'[Len(opts')], 1,
                                      Scan[para].txt, 1)
                 ELSE opts' = opts]_vars

\* C16 witness: the open question holds an option, then an option taken
\* from an answer line, and the answer of that line; an answer line that
\* is no option line was read as well.
C16_Witness ==
    /\ idx # None
    /\ opts = << <<"A", ".", "p">>, <<"C", ".", "z">> >>
    /\ ans = <<"a">>
    /\ \E i \in head..Len(doc) :
          LineKind(doc[i]) = "answer" /\ ~Scan[doc[i]].opt

\* C17: in a session of mode 1 on a bank of at least NUM_PRACTICE
\* Questions, the pool holds exactly NUM_PRACTICE Questions, each an entry
\* of the bank, no entry twice.
C17_ModeOneFixedSize ==
    (pc = "quiz" /\ mode = <<"1">> /\ Len(bank) >= NUM_PRACTICE) =>
       /\ Len(pool) = NUM_PRACTICE
       /\ Len(picked) = Len(pool)
       /\ \A i \in 1..Len(pool) :
             /\ picked[i] \in 1..Len(bank)
             /\ pool[i] = bank[picked[i]]
       /\ \A i, j \in 1..Len(pool) : i # j => picked[i] # picked[j]

\* C18: no session ends in an error; in a session ask has been called once
\* for each Question of the pool read so far, in the order of the pool,
\* and the score lies between 0 and their number; back at the mode prompt
\* after a session, a score between 0 and the total has been reported.
C18_SessionCompletes ==
    /\ pc # "crashed"
    /\ pc = "quiz" =>
          /\ cur <= Len(pool)
          /\ asked = SubSeq(pool, 1, cur)
          /\ 0 <= score /\ score <= cur
    /\ (pc = "menu" /\ sessions > 0) =>
          /\ report # <<>>
          /\ 0 <= report[1] /\ report[1] <= report[2]

\* number of entries of s equal to x
Count(s, x) == Cardinality({i \in 1..Len(s) : s[i] = x})

\* a and b hold the same Questions, each as many times
SameBag(a, b) ==
    /\ Len(a) = Len(b)
    /\ \A i \in 1..Len(a) : Count(a, a[i]) = Count(b, a[i])

\* C19: the bank always holds the Questions the parser returned, each as
\* many times and with every field as returned; the bank changes only
\* when a session of mode 2 starts, and then to a permutation of itself.
C19_BankPreserved ==
    /\ [](SameBag(bank, qs))
    /\ [][bank' # bank =>
             /\ pc = "menu"
             /\ mode' = <<"2">>
             /\ SameBag(bank', bank)]_vars

\* C19 witness: back at the mode prompt after a session of mode 2 that
\* changed the order of the bank and a session of mode 1.
C19_Witness ==
    /\ pc = "menu"
    /\ sessions = 2
    /\ mode = <<"1">>
    /\ Len(bank) = 3
    /\ bank # qs

\* the letter an option line starts with, in upper case
StartLetter(raw) ==
    IF SkipWS(raw, 1) <= Len(raw)
    THEN <<UpperChar(raw[SkipWS(raw, 1)])>> ELSE <<>>

\* the letters of the options of q as displayed: those the options start
\* with, A and B for a Question without options
Carried(q) ==
    IF q.options = <<>> THEN << <<"A">>, <<"B">> >>
    ELSE [i \in 1..Len(q.options) |-> StartLetter(q.options[i])]

\* q is a Question of the claim: every option starts with a letter of its
\* own and the answer is one of these letters, or q is a true-false
\* Question without options whose answer is A or B
Lettered(q) ==
    /\ q.options = <<>> => q.qtype = "tf"
    /\ \A i \in 1..Len(Carried(q)) :
          Carried(q)[i] \in {<<"A">>, <<"B">>, <<"C">>, <<"D">>, <<"E">>}
    /\ \A i, j \in 1..Len(Carried(q)) :
          i # j => Carried(q)[i] # Carried(q)[j]
    /\ \E i \in 1..Len(Carried(q)) : Carried(q)[i] = q.answer

\* C20: for such a Question, whatever the order the options were shown
\* in, the letter of the answer is judged correct, the number of the
\* position showing the option with that letter is judged correct, and the
\* number of any other position shown is judged wrong.
C20_ScoringIndependentOfShuffle ==
    (last # <<>> /\ Lettered(last.q)) =>
       /\ Upper(Strip(last.inp)) = last.q.answer => last.correct
       /\ \A j \in 1..Len(last.order) :
             last.inp = Str(j) =>
                (last.correct <=>
                    Carried(last.q)[last.order[j]] = last.q.answer)

====
